---- MODULE Spec2Model ----
(***************************************************************************)
(* ValutaTrade Hub: wallet ledger, rate cache, rate updater, trading       *)
(* usecases and the JSON persistence layer, as a state machine.            *)
(*                                                                         *)
(* Money amounts are whole numbers of the smallest unit.  Exchange rates   *)
(* are exact fractions [n, d] in lowest terms.  Time is in whole seconds.  *)
(***************************************************************************)
EXTENDS Integers, Sequences, FiniteSets, TLC

(***************************************************************************)
(* Bounds of the model.                                                    *)
(***************************************************************************)
MaxBalance == 6
\* The significant bits of the model's floats (a Python float carries 53).
FloatBits == 2
MaxAmount == 3
MaxNow == 302
MaxHolding == 2
\* The documents a write may carry: versions 1..MaxDoc of an entity's list.
MaxDoc == 2
\* json.dump reaches the file in this many pieces.
DocChunks == 2
\* A transaction is given at most this many operations.
MaxOps == 2
\* Each thread makes at most this many update_entity calls.
MaxCalls == 1

(***************************************************************************)
(* Program constants.                                                      *)
(***************************************************************************)
\* usecases.py:213  settings.get("ratesttlseconds", 300)
DefaultTtl == 300

\* The clock is sampled at steps of half a TTL and half a TTL plus one, so
\* that cache ages 0, 150, 151, 300, 301 and 302 all occur.
TickSteps == {DefaultTtl \div 2, DefaultTtl \div 2 + 1}

(***************************************************************************)
(* Currency registry (core/currencies.py).                                 *)
(***************************************************************************)
Registry == {"USD", "EUR", "GBP", "RUB", "JPY", "CNY",
             "BTC", "ETH", "SOL", "ADA", "DOT"}

\* str.upper() on the codes the model feeds in.
upper(code) ==
    CASE code = "usd" -> "USD"
      [] code = "btc" -> "BTC"
      [] code = "xyz" -> "XYZ"
      [] OTHER -> code

\* A registry lookup that accepts every code.
get_currency_any(code) == TRUE

\* CurrencyRegistry.get_currency: TRUE when the lookup returns, FALSE when it
\* raises CurrencyNotFoundError.
get_currency(code) == upper(code) \in Registry

(***************************************************************************)
(* Wallet (core/models.py).                                                *)
(* Each operation returns [err, balance]: the exception raised ("none" if  *)
(* it returned) and the wallet's balance after the call.                   *)
(***************************************************************************)
\* Balances and amounts are Python floats, here in whole units: a float
\* holds FloatBits significant bits, and an arithmetic result is the exact
\* one rounded to the nearest float, ties to the even mantissa.
RECURSIVE pow2(_)
pow2(k) == IF k = 0 THEN 1 ELSE 2 * pow2(k - 1)

\* The spacing of the floats around v >= 0.
RECURSIVE spacing(_, _)
spacing(v, step) ==
    IF v < pow2(FloatBits) * step THEN step ELSE spacing(v, 2 * step)

\* The float nearest to the exact value v.
to_float(v) ==
    IF v < 0 THEN v
    ELSE LET step == spacing(v, 1)
             q == v \div step
             r == v % step
         IN  IF 2 * r < step THEN q * step
             ELSE IF 2 * r > step THEN (q + 1) * step
             ELSE IF q % 2 = 0 THEN q * step
             ELSE (q + 1) * step

\* Wallet.balance setter
set_balance(balance, value) ==
    IF value < 0
    THEN [err |-> "ValueError", balance |-> balance]
    ELSE [err |-> "none", balance |-> value]

\* Wallet.deposit
deposit(balance, amount) ==
    IF amount <= 0
    THEN [err |-> "ValueError", balance |-> balance]
    ELSE set_balance(balance, to_float(balance + amount))

\* Wallet.withdraw with the balance check dropped
withdraw_unchecked(balance, amount) ==
    IF amount <= 0
    THEN [err |-> "ValueError", balance |-> balance]
    ELSE [err |-> "none", balance |-> balance - amount]

\* Wallet.withdraw that debits what is available before raising
withdraw_partial(balance, amount) ==
    IF amount <= 0
    THEN [err |-> "ValueError", balance |-> balance]
    ELSE IF amount > balance
         THEN [err |-> "InsufficientFundsError", balance |-> 0]
         ELSE set_balance(balance, to_float(balance - amount))

\* Wallet.withdraw
withdraw(balance, amount) ==
    IF amount <= 0
    THEN [err |-> "ValueError", balance |-> balance]
    ELSE IF amount > balance
         THEN [err |-> "InsufficientFundsError", balance |-> balance]
         ELSE set_balance(balance, to_float(balance - amount))

\* The details InsufficientFundsError carries (core/exceptions.py).
InsufficientFundsDetails(balance, amount, code) ==
    [available |-> balance, required |-> amount, currency_code |-> code]

NoDetails == [available |-> 0, required |-> 0, currency_code |-> "none"]

(***************************************************************************)
(* Portfolio (core/models.py): wallets is a function code -> balance.      *)
(***************************************************************************)
EmptyWallets == [c \in {} |-> 0]

\* Portfolio.add_currency: [err, wallets]
add_currency(ws, currency_code) ==
    LET code == upper(currency_code) IN
    IF code \in DOMAIN ws
    THEN [err |-> "ValueError", wallets |-> ws]
    ELSE [err |-> "none", wallets |-> ws @@ (code :> 0)]

\* Portfolio.get_wallet: TRUE when it returns the wallet, FALSE when it
\* raises ValueError (no wallet for the code).
get_wallet(ws, currency_code) == upper(currency_code) \in DOMAIN ws

(***************************************************************************)
(* Exact fractions, standing for the floats of the rate table.             *)
(***************************************************************************)
RECURSIVE gcd(_, _)
gcd(a, b) == IF b = 0 THEN a ELSE gcd(b, a % b)

Frac(n, d) == LET g == gcd(n, d) IN [n |-> n \div g, d |-> d \div g]

\* x / y
fdiv(x, y) == Frac(x.n * y.d, x.d * y.n)

\* x * y
fmul(x, y) == Frac(x.n * y.n, x.d * y.d)

\* x + y
fadd(x, y) == Frac(x.n * y.d + y.n * x.d, x.d * y.d)

One == Frac(1, 1)

\* "No rate": real rates are positive.
NoRate == [n |-> 0, d |-> 1]

(***************************************************************************)
(* Rate sources (parser_service/api_clients.py).                           *)
(* A fetch outcome is [ok, rates, source]: ok = FALSE when fetch raised.   *)
(***************************************************************************)
FetchFailed == [ok |-> FALSE, rates |-> <<>>, source |-> "none"]

\* StubRatesClient.fetch
StubRatesClient_fetch(base) ==
    [ok |-> TRUE,
     rates |->
        IF upper(base) = "USD"
        THEN ("EUR" :> Frac(92, 100)) @@ ("RUB" :> Frac(95, 1)) @@
             ("BTC" :> Frac(1, 60000)) @@ ("ETH" :> Frac(1, 2500))
        ELSE IF upper(base) = "EUR"
        THEN ("USD" :> Frac(108, 100)) @@ ("RUB" :> Frac(103, 1)) @@
             ("BTC" :> Frac(1, 65000)) @@ ("ETH" :> Frac(1, 2700))
        ELSE ("USD" :> One),
     source |-> "StubRatesClient"]

\* The "rates" objects the remote API answers with in this model.
ApiRawRates ==
    { ("EUR" :> Frac(9, 10)) @@ ("GBP" :> Frac(4, 5)) @@ ("BTC" :> Frac(1, 50000)),
      ("USD" :> Frac(2, 1)) @@ ("EUR" :> One) @@ ("RUB" :> Frac(95, 1)) }

\* ExchangeRateHostClient.fetch, given the API's answer: only USD, EUR and RUB
\* are kept.
ExchangeRateHostClient_fetch(raw) ==
    [ok |-> TRUE,
     rates |-> [k \in DOMAIN raw \cap {"USD", "EUR", "RUB"} |-> raw[k]],
     source |-> "exchangerate.host"]

(***************************************************************************)
(* Rate updater (parser_service/updater.py).                               *)
(***************************************************************************)
\* RatesUpdater.update, line 47
supported == <<"USD", "EUR", "RUB", "BTC", "ETH">>

Supported == {supported[i] : i \in 1..Len(supported)}

\* core/utils.normalize_currency_code: trim and upper-case.
normalize_currency_code(code) == upper(code)

\* The loop over the sources with no break: every source is asked and the
\* last one that answers wins.
RECURSIVE fetch_loop_nobreak(_, _, _)
fetch_loop_nobreak(outcomes, i, acc) ==
    IF i > Len(outcomes)
    THEN acc
    ELSE fetch_loop_nobreak(outcomes, i + 1,
            [snapshot |-> IF outcomes[i].ok THEN outcomes[i] ELSE acc.snapshot,
             calls |-> Append(acc.calls, i)])

\* RatesUpdater.update, lines 35-42: the single pass over self._clients.
\* outcomes[i] is what client i's fetch does when called; acc.calls lists the
\* clients whose fetch has been called.
RECURSIVE fetch_loop(_, _, _)
fetch_loop(outcomes, i, acc) ==
    IF i > Len(outcomes)
    THEN acc
    ELSE IF outcomes[i].ok
         THEN [snapshot |-> outcomes[i], calls |-> Append(acc.calls, i)]
         ELSE fetch_loop(outcomes, i + 1,
                         [snapshot |-> acc.snapshot,
                          calls |-> Append(acc.calls, i)])

\* RatesUpdater.update, line 57 left out: the source's own value for base stays.
force_base_unforced(raw, base_code) ==
    [c \in DOMAIN raw \cup {base_code} |->
        IF c \in DOMAIN raw THEN raw[c] ELSE One]

\* RatesUpdater.update, lines 54-57: rates = snapshot.rates.copy();
\* rates[base_code] = 1.0
force_base(raw, base_code) ==
    [c \in DOMAIN raw \cup {base_code} |->
        IF c = base_code THEN One ELSE raw[c]]

\* The bridging formula upside down.
derive_rate_inverted(snap, frm, to) == fdiv(snap[frm], snap[to])

\* RatesUpdater.update, line 74: r = float(rates[to]) / float(rates[frm])
derive_rate(snap, frm, to) == fdiv(snap[to], snap[frm])

\* The pair table with the self-pairs written too.
build_pairs_with_self(snap, updated_at) ==
    [k \in {p \in Supported \X Supported :
              p[1] \in DOMAIN snap /\ p[2] \in DOMAIN snap} |->
        [rate |-> derive_rate(snap, k[1], k[2]), updated_at |-> updated_at]]

\* RatesUpdater.update, lines 63-75: the pair table.
build_pairs(snap, updated_at) ==
    [k \in {p \in Supported \X Supported :
              p[1] # p[2] /\ p[1] \in DOMAIN snap /\ p[2] \in DOMAIN snap} |->
        [rate |-> derive_rate(snap, k[1], k[2]), updated_at |-> updated_at]]

(***************************************************************************)
(* State.                                                                  *)
(***************************************************************************)
VARIABLES
    wallets,        \* standalone Wallet objects: currency code -> balance
    walletResult,   \* the outcome of the last deposit / withdraw on one of them
    settings,       \* SettingsLoader._settings: key -> value
    now,            \* the wall clock, in seconds
    rates,          \* rates.json: [pairs, source, last_refresh]
    users,          \* users.json: a list of [user_id, username]
    portfolios,     \* portfolios.json: a list of [user_id, wallets]
    session,        \* the session manager's current user, NoUser if none
    sessionFile,    \* data/.session.json: <<user_id, username>>, NoFile if absent
    result,         \* the outcome of the last usecase call
    disk,           \* DatabaseManager's data directory: path -> file
    writer,         \* the write_data call in progress and its position
    backups,        \* the backup directory: a set of <<entity, file>>
    readResult,     \* the outcome of the last read_data call
    files,          \* the data directory by content: entity -> what its file holds
    backup_dir,     \* the backup directory by content: a set of <<entity, content>>
    tx,             \* the DatabaseTransaction of the with-block in progress
    threads,        \* the update_entity call of each thread and its position
    dbResult        \* the outcome of the last DatabaseManager / transaction call

vars == <<wallets, walletResult, settings, now, rates, users, portfolios,
          session, sessionFile, result, disk, writer, backups, readResult,
          files, backup_dir, tx, threads, dbResult>>

objVars == <<wallets, walletResult>>
envVars == <<settings, now>>
sessVars == <<session, sessionFile>>
storeVars == <<users, portfolios, sessVars>>
dbVars == <<files, backup_dir, tx, threads, dbResult>>
fsVars == <<disk, writer, backups, readResult, dbVars>>

WalletCodes == {"USD", "BTC"}
Amounts == {a \in -1..MaxAmount : to_float(a) = a}

NoRefresh == -1

EmptyPairs == [p \in {} |-> [rate |-> NoRate, updated_at |-> NoRefresh]]

\* db.read_obj("rates", default={}) when nothing is persisted yet.
EmptyCache == [pairs |-> EmptyPairs, source |-> "none", last_refresh |-> NoRefresh]

NoWalletResult ==
    [op |-> "none", code |-> "none", amount |-> 0, before |-> 0,
     err |-> "none", details |-> NoDetails]

NoUser == [user_id |-> 0, username |-> "none"]
NoFile == <<>>

NoResult ==
    [op |-> "none", status |-> "none", code |-> "none", base |-> "none",
     amount |-> 0, old_balance |-> 0, new_balance |-> 0,
     rate |-> NoRate, updated_at |-> NoRefresh, rate_status |-> "none",
     calls |-> <<>>, source |-> "none", username |-> "none",
     values |-> <<>>, total |-> NoRate]

\* A file is the document it was opened for and how much of it has arrived.
Missing == [doc |-> 0, written |-> 0]
File(doc, written) == [doc |-> doc, written |-> written]
Complete(f) == f # Missing /\ f.written = DocChunks

Entities == {"portfolios"}
Docs == 1..MaxDoc

\* DatabaseManager._get_file_path, relative to data_dir
get_file_path(entity) == entity \o ".json"

\* A temporary path that is the target itself.
temp_path_inplace(file_path) == file_path

\* temp_path = file_path + '.tmp'
temp_path(file_path) == file_path \o ".tmp"

Paths == UNION {{get_file_path(e), temp_path(get_file_path(e))} : e \in Entities}

Idle == [pc |-> "idle", entity |-> "none", data |-> 0]
NoRead == [entity |-> "none", status |-> "none", doc |-> 0]

\* The data directory seen by content.  An entity file is absent, holds text
\* that is not JSON, holds JSON that is not a list, or holds a list of records.
DbEntities == {"test", "audit"}
Ids == {1, 2}
Record(id, rev) == [id |-> id, rev |-> rev]
Absent == [kind |-> "absent", rows |-> <<>>]
Malformed == [kind |-> "malformed", rows |-> <<>>]
NotAList == [kind |-> "object", rows |-> <<>>]
Rows(rows) == [kind |-> "list", rows |-> rows]

\* DatabaseTransaction.__init__; pc is "none" before the with-block, "open"
\* inside it and "closed" after it.
NoTx == [pc |-> "none", operations |-> <<>>, committed |-> FALSE]

Threads == {"t1", "t2"}
IdleThread == [pc |-> "idle", entity |-> "none", value |-> 0, entities |-> <<>>,
               calls |-> 0]
NoDbResult == [op |-> "none", entity |-> "none", status |-> "none", rows |-> <<>>,
               propagated |-> FALSE]

\* The values VALUTATRADE_RATES_TTL_SECONDS takes at start-up (unset: 300).
TtlSettings == {DefaultTtl, DefaultTtl \div 2}

Init ==
    /\ wallets = [c \in WalletCodes |-> 0]
    /\ walletResult = NoWalletResult
    /\ settings \in {[rates_ttl_seconds |-> t] : t \in TtlSettings}
    /\ now = 0
    /\ rates = EmptyCache
    /\ users = <<>>
    /\ portfolios = <<>>
    /\ session = NoUser
    /\ sessionFile = NoFile
    /\ result = NoResult
    /\ disk = [p \in Paths |-> Missing]
    /\ writer = Idle
    /\ backups = {}
    /\ readResult = NoRead
    /\ files = [e \in DbEntities |-> Absent]
    /\ backup_dir = {}
    /\ tx = NoTx
    /\ threads = [t \in Threads |-> IdleThread]
    /\ dbResult = NoDbResult

(***************************************************************************)
(* Wallet objects (core/models.py).                                        *)
(***************************************************************************)
\* Wallet(code).deposit(amount)
Wallet_deposit(code, amount) ==
    LET r == deposit(wallets[code], amount) IN
    /\ r.balance <= MaxBalance
    /\ wallets' = [wallets EXCEPT ![code] = r.balance]
    /\ walletResult' = [op |-> "deposit", code |-> code, amount |-> amount,
                        before |-> wallets[code], err |-> r.err,
                        details |-> NoDetails]
    /\ UNCHANGED <<fsVars, envVars, rates, storeVars, result>>

\* Wallet(code).withdraw(amount)
Wallet_withdraw(code, amount) ==
    LET r == withdraw(wallets[code], amount) IN
    /\ wallets' = [wallets EXCEPT ![code] = r.balance]
    /\ walletResult' = [op |-> "withdraw", code |-> code, amount |-> amount,
                        before |-> wallets[code], err |-> r.err,
                        details |-> IF r.err = "InsufficientFundsError"
                                    THEN InsufficientFundsDetails(
                                             wallets[code], amount, code)
                                    ELSE NoDetails]
    /\ UNCHANGED <<fsVars, envVars, rates, storeVars, result>>

(***************************************************************************)
(* Settings and clock.                                                     *)
(***************************************************************************)
\* SettingsLoader.get(key, default)
settings_get(key, default) ==
    IF key \in DOMAIN settings THEN settings[key] ELSE default

\* Time passes.
Tick(d) ==
    /\ now + d <= MaxNow
    /\ now' = now + d
    /\ UNCHANGED <<fsVars, objVars, settings, rates, storeVars, result>>

(***************************************************************************)
(* Rate lookup (core/usecases.py, RatesUsecase).                           *)
(***************************************************************************)
\* RatesUsecase._pair_key
pair_key(from_code, to_code) == <<from_code, to_code>>

\* _is_fresh with a strict comparison
is_fresh_strict(last_refresh) ==
    (now - last_refresh) < settings_get("ratesttlseconds", DefaultTtl)

\* RatesUsecase._is_fresh
is_fresh(last_refresh) ==
    (now - last_refresh) <= settings_get("ratesttlseconds", DefaultTtl)

RateFailure(status) ==
    [status |-> status, rate |-> NoRate, updated_at |-> NoRefresh]

\* get_rate that answers 1 for from = to without reading the cache
get_rate_identity(from_code, to_code) ==
    LET frm == normalize_currency_code(from_code)
        to == normalize_currency_code(to_code)
    IN  IF ~get_currency(frm) \/ ~get_currency(to)
        THEN RateFailure("CurrencyNotFoundError")
        ELSE IF frm = to
        THEN [status |-> "ok", rate |-> One, updated_at |-> now]
        ELSE IF rates.last_refresh = NoRefresh
        THEN RateFailure("RatesCacheEmpty")
        ELSE IF ~is_fresh(rates.last_refresh)
        THEN RateFailure("RatesCacheExpired")
        ELSE IF pair_key(frm, to) \notin DOMAIN rates.pairs
        THEN RateFailure("RateUnavailable")
        ELSE [status |-> "ok",
              rate |-> rates.pairs[pair_key(frm, to)].rate,
              updated_at |-> rates.pairs[pair_key(frm, to)].updated_at]

\* get_rate that looks the pair up before it checks the age of the cache
get_rate_pair_first(from_code, to_code) ==
    LET frm == normalize_currency_code(from_code)
        to == normalize_currency_code(to_code)
    IN  IF ~get_currency(frm) \/ ~get_currency(to)
        THEN RateFailure("CurrencyNotFoundError")
        ELSE IF rates.last_refresh = NoRefresh
        THEN RateFailure("RatesCacheEmpty")
        ELSE IF pair_key(frm, to) \notin DOMAIN rates.pairs
        THEN RateFailure("RateUnavailable")
        ELSE IF ~is_fresh(rates.last_refresh)
        THEN RateFailure("RatesCacheExpired")
        ELSE [status |-> "ok",
              rate |-> rates.pairs[pair_key(frm, to)].rate,
              updated_at |-> rates.pairs[pair_key(frm, to)].updated_at]

\* RatesUsecase.get_rate.  The three cache failures are all ApiRequestError
\* in the source, told apart by their message; they are named here by kind.
get_rate(from_code, to_code) ==
    LET frm == normalize_currency_code(from_code)
        to == normalize_currency_code(to_code)
    IN  IF ~get_currency(frm) \/ ~get_currency(to)
        THEN RateFailure("CurrencyNotFoundError")
        ELSE IF rates.last_refresh = NoRefresh
        THEN RateFailure("RatesCacheEmpty")
        ELSE IF ~is_fresh(rates.last_refresh)
        THEN RateFailure("RatesCacheExpired")
        ELSE IF pair_key(frm, to) \notin DOMAIN rates.pairs
        THEN RateFailure("RateUnavailable")
        ELSE [status |-> "ok",
              rate |-> rates.pairs[pair_key(frm, to)].rate,
              updated_at |-> rates.pairs[pair_key(frm, to)].updated_at]

\* A get_rate call that restamps an expired cache on its way out.
GetRate_restamping(from_code, to_code) ==
    LET r == get_rate(from_code, to_code) IN
    /\ result' = [NoResult EXCEPT
                    !.op = "get_rate", !.status = r.status,
                    !.code = normalize_currency_code(from_code),
                    !.base = normalize_currency_code(to_code),
                    !.rate = r.rate, !.updated_at = r.updated_at,
                    !.rate_status = r.status]
    /\ rates' = IF r.status = "RatesCacheExpired"
                THEN [rates EXCEPT !.last_refresh = now]
                ELSE rates
    /\ UNCHANGED <<fsVars, objVars, envVars, storeVars>>

\* A call of RatesUsecase().get_rate(from_code, to_code)
GetRate(from_code, to_code) ==
    LET r == get_rate(from_code, to_code) IN
    /\ result' = [NoResult EXCEPT
                    !.op = "get_rate", !.status = r.status,
                    !.code = normalize_currency_code(from_code),
                    !.base = normalize_currency_code(to_code),
                    !.rate = r.rate, !.updated_at = r.updated_at,
                    !.rate_status = r.status]
    /\ UNCHANGED <<fsVars, objVars, envVars, rates, storeVars>>

(***************************************************************************)
(* Rate updater (parser_service/updater.py).                               *)
(***************************************************************************)
NoSnapshot == FetchFailed

\* update that writes the new pairs over the old table and keeps the rest
update_merging(base, outcomes) ==
    LET base_code == normalize_currency_code(base)
        got == fetch_loop(outcomes, 1, [snapshot |-> NoSnapshot, calls |-> <<>>])
        snap == force_base(got.snapshot.rates, base_code)
        updated_at == now
        fresh == build_pairs(snap, updated_at)
        payload == [pairs |-> [k \in DOMAIN fresh \cup DOMAIN rates.pairs |->
                                  IF k \in DOMAIN fresh THEN fresh[k]
                                  ELSE rates.pairs[k]],
                    source |-> got.snapshot.source,
                    last_refresh |-> updated_at]
    IN  /\ IF ~get_currency(base_code)
           THEN /\ result' = [NoResult EXCEPT !.op = "update", !.code = base_code,
                                !.status = "CurrencyNotFoundError"]
                /\ UNCHANGED rates
           ELSE IF ~got.snapshot.ok
           THEN /\ result' = [NoResult EXCEPT !.op = "update", !.code = base_code,
                                !.status = "RuntimeError", !.calls = got.calls]
                /\ UNCHANGED rates
           ELSE /\ result' = [NoResult EXCEPT !.op = "update", !.code = base_code,
                                !.status = "ok", !.calls = got.calls,
                                !.source = got.snapshot.source,
                                !.updated_at = updated_at]
                /\ rates' = payload
        /\ UNCHANGED <<fsVars, objVars, envVars, storeVars>>

\* RatesUpdater.update(base).  outcomes[i] is what the fetch of client i does
\* if it is called: update is written against the client interface (fetch
\* returns a snapshot or raises), and the outcome of every fetch is an input
\* here, also that of the last client.
update(base, outcomes) ==
    LET base_code == normalize_currency_code(base)
        got == fetch_loop(outcomes, 1, [snapshot |-> NoSnapshot, calls |-> <<>>])
        snap == force_base(got.snapshot.rates, base_code)
        updated_at == now
        payload == [pairs |-> build_pairs(snap, updated_at),
                    source |-> got.snapshot.source,
                    last_refresh |-> updated_at]
    IN  /\ IF ~get_currency(base_code)
           THEN /\ result' = [NoResult EXCEPT !.op = "update", !.code = base_code,
                                !.status = "CurrencyNotFoundError"]
                /\ UNCHANGED rates
           ELSE IF ~got.snapshot.ok
           THEN /\ result' = [NoResult EXCEPT !.op = "update", !.code = base_code,
                                !.status = "RuntimeError", !.calls = got.calls]
                /\ UNCHANGED rates
           ELSE /\ result' = [NoResult EXCEPT !.op = "update", !.code = base_code,
                                !.status = "ok", !.calls = got.calls,
                                !.source = got.snapshot.source,
                                !.updated_at = updated_at]
                /\ rates' = payload
        /\ UNCHANGED <<fsVars, objVars, envVars, storeVars>>

\* What the two clients of RatesUpdater.__init__ can do, in order.
ApiOutcomes == {FetchFailed} \cup {ExchangeRateHostClient_fetch(r) : r \in ApiRawRates}
StubOutcomes(base) == {FetchFailed, StubRatesClient_fetch(base)}

FetchOutcomes(base) ==
    {<<a, s>> : a \in ApiOutcomes, s \in StubOutcomes(base)}

(***************************************************************************)
(* Users and session (core/usecases.py UsersUsecase, core/session.py).     *)
(***************************************************************************)
Max(S) == CHOOSE x \in S : \A y \in S : y <= x

\* register without the check for a taken username.
register_unchecked(username) ==
    LET next_id == Max({users[i].user_id : i \in 1..Len(users)} \cup {0}) + 1
    IN  /\ users' = Append(users, [user_id |-> next_id, username |-> username])
        /\ portfolios' = Append(portfolios,
                                [user_id |-> next_id, wallets |-> EmptyWallets])
        /\ result' = [NoResult EXCEPT !.op = "register",
                        !.status = "ok", !.username = username]
        /\ UNCHANGED <<fsVars, objVars, envVars, rates, sessVars>>

\* UsersUsecase.register
register(username) ==
    /\ IF \E i \in 1..Len(users) : users[i].username = username
       THEN /\ result' = [NoResult EXCEPT !.op = "register",
                            !.status = "ValueError", !.username = username]
            /\ UNCHANGED <<users, portfolios>>
       ELSE LET next_id == Max({users[i].user_id : i \in 1..Len(users)} \cup {0}) + 1
            IN  /\ users' = Append(users, [user_id |-> next_id,
                                           username |-> username])
                /\ portfolios' = Append(portfolios,
                                        [user_id |-> next_id,
                                         wallets |-> EmptyWallets])
                /\ result' = [NoResult EXCEPT !.op = "register",
                                !.status = "ok", !.username = username]
    /\ UNCHANGED <<fsVars, objVars, envVars, rates, sessVars>>

\* SessionUser(user_id, username)
SessionUser(user_id, username) == [user_id |-> user_id, username |-> username]

\* A login that keeps the user in memory only.
save_session_skipped(user) == sessionFile

\* SessionManager._save_session: the content of the session file after it
\* (nothing is written when there is no current user).
save_session(user) ==
    IF user = NoUser THEN sessionFile ELSE <<user.user_id, user.username>>

\* SessionManager._load_session: the current user read from the file, left
\* as it is when there is no file.
load_session(file, current) ==
    IF file = NoFile THEN current ELSE SessionUser(file[1], file[2])

\* A new process: SessionManager.__init__ starts with no user and loads.
NewProcess ==
    /\ session' = load_session(sessionFile, NoUser)
    /\ result' = [NoResult EXCEPT !.op = "new_process", !.status = "ok"]
    /\ UNCHANGED <<fsVars, objVars, envVars, rates, users, portfolios,
                   sessionFile>>

\* UsersUsecase.login; password_ok: whether verify_password accepts.
login(username, password_ok) ==
    /\ IF ~\E i \in 1..Len(users) : users[i].username = username
       THEN /\ result' = [NoResult EXCEPT !.op = "login",
                            !.status = "AuthenticationError",
                            !.username = username]
            /\ UNCHANGED sessVars
       ELSE LET raw == users[CHOOSE i \in 1..Len(users) :
                                /\ users[i].username = username
                                /\ \A j \in 1..(i - 1) :
                                      users[j].username # username]
            IN  IF ~password_ok
                THEN /\ result' = [NoResult EXCEPT !.op = "login",
                                     !.status = "AuthenticationError",
                                     !.username = username]
                     /\ UNCHANGED sessVars
                ELSE /\ session' = SessionUser(raw.user_id, raw.username)
                     /\ sessionFile' = save_session(session')
                     /\ result' = [NoResult EXCEPT !.op = "login",
                                     !.status = "ok", !.username = username]
    /\ UNCHANGED <<fsVars, objVars, envVars, rates, users, portfolios>>

\* SessionManager.logout: forget the user and unlink the file.
logout ==
    /\ session' = NoUser
    /\ sessionFile' = NoFile
    /\ result' = [NoResult EXCEPT !.op = "logout", !.status = "ok"]
    /\ UNCHANGED <<fsVars, objVars, envVars, rates, users, portfolios>>

(***************************************************************************)
(* Trading (core/usecases.py PortfolioUsecase).                            *)
(***************************************************************************)
\* A decorator that lets every call through.
require_auth_off == TRUE

\* decorators.require_authentication, which usecases.py imports under the
\* name require_auth: TRUE when the wrapped call goes ahead.
require_auth == session # NoUser

\* core/utils.parse_positive_decimal: TRUE when the amount is accepted.
parse_positive_decimal(amount) == amount > 0

\* PortfolioUsecase._load_portfolio: the wallets of the first record of the
\* user, an empty portfolio if there is none.
load_portfolio(user_id) ==
    IF \E i \in 1..Len(portfolios) : portfolios[i].user_id = user_id
    THEN portfolios[CHOOSE i \in 1..Len(portfolios) :
                        /\ portfolios[i].user_id = user_id
                        /\ \A j \in 1..(i - 1) :
                              portfolios[j].user_id # user_id].wallets
    ELSE EmptyWallets

\* _save_portfolio that always appends the record.
save_portfolio_appending(user_id, ws) ==
    Append(portfolios, [user_id |-> user_id, wallets |-> ws])

\* PortfolioUsecase._save_portfolio: the list written back.
save_portfolio(user_id, ws) ==
    IF \E i \in 1..Len(portfolios) : portfolios[i].user_id = user_id
    THEN LET k == CHOOSE i \in 1..Len(portfolios) :
                        /\ portfolios[i].user_id = user_id
                        /\ \A j \in 1..(i - 1) :
                              portfolios[j].user_id # user_id
         IN  [portfolios EXCEPT ![k] = [user_id |-> user_id, wallets |-> ws]]
    ELSE Append(portfolios, [user_id |-> user_id, wallets |-> ws])

\* portfolio_manager.add_currency_to_portfolio, as the CLI calls it for the
\* logged-in user: Portfolio.add_currency on the loaded portfolio, saved.
add_currency_to_portfolio(currency_code) ==
    LET code == upper(currency_code)
        r == add_currency(load_portfolio(session.user_id), code)
        failed(status) == [NoResult EXCEPT !.op = "add_currency",
                             !.status = status, !.code = code]
    IN  /\ IF ~require_auth
           THEN /\ result' = failed("AuthenticationError")
                /\ UNCHANGED portfolios
           ELSE IF ~get_currency(code)
           THEN /\ result' = failed("CurrencyNotFoundError")
                /\ UNCHANGED portfolios
           ELSE IF r.err # "none"
           THEN /\ result' = failed(r.err)
                /\ UNCHANGED portfolios
           ELSE /\ portfolios' = save_portfolio(session.user_id, r.wallets)
                /\ result' = failed("ok")
        /\ UNCHANGED <<fsVars, objVars, envVars, rates, users, sessVars>>

\* buy / sell with the rate looked up before the wallet is touched.
trade_rate_first(op, currency_code, amount, base) ==
    LET code == normalize_currency_code(currency_code)
        base_code == normalize_currency_code(base)
        ws == load_portfolio(session.user_id)
        old_balance == ws[code]
        moved == IF op = "buy" THEN deposit(old_balance, amount)
                 ELSE withdraw(old_balance, amount)
        r == get_rate(code, base_code)
        failed(status) == [NoResult EXCEPT !.op = op, !.status = status,
                             !.code = code, !.base = base_code,
                             !.amount = amount]
    IN  /\ IF ~require_auth
           THEN /\ result' = failed("AuthenticationError")
                /\ UNCHANGED portfolios
           ELSE IF ~get_currency(code) \/ ~get_currency(base_code)
           THEN /\ result' = failed("CurrencyNotFoundError")
                /\ UNCHANGED portfolios
           ELSE IF ~parse_positive_decimal(amount)
           THEN /\ result' = failed("InvalidAmount")
                /\ UNCHANGED portfolios
           ELSE IF ~get_wallet(ws, code)
           THEN /\ result' = failed("WalletNotFound")
                /\ UNCHANGED portfolios
           ELSE IF r.status # "ok"
           THEN /\ result' = [failed(r.status) EXCEPT
                                !.old_balance = old_balance,
                                !.rate_status = r.status]
                /\ UNCHANGED portfolios
           ELSE IF moved.err # "none"
           THEN /\ result' = [failed(moved.err) EXCEPT
                                !.old_balance = old_balance,
                                !.new_balance = moved.balance,
                                !.rate_status = "ok"]
                /\ UNCHANGED portfolios
           ELSE /\ moved.balance <= MaxHolding
                /\ result' = [failed("ok") EXCEPT
                                !.old_balance = old_balance,
                                !.new_balance = moved.balance,
                                !.rate = r.rate,
                                !.updated_at = r.updated_at,
                                !.rate_status = "ok"]
                /\ portfolios' =
                      save_portfolio(session.user_id,
                          [ws EXCEPT ![code] = moved.balance])
        /\ UNCHANGED <<fsVars, objVars, envVars, rates, users, sessVars>>

\* buy / sell that save the portfolio before the rate is looked up.
trade_save_first(op, currency_code, amount, base) ==
    LET code == normalize_currency_code(currency_code)
        base_code == normalize_currency_code(base)
        ws == load_portfolio(session.user_id)
        old_balance == ws[code]
        moved == IF op = "buy" THEN deposit(old_balance, amount)
                 ELSE withdraw(old_balance, amount)
        r == get_rate(code, base_code)
        failed(status) == [NoResult EXCEPT !.op = op, !.status = status,
                             !.code = code, !.base = base_code,
                             !.amount = amount]
    IN  /\ IF ~require_auth
           THEN /\ result' = failed("AuthenticationError")
                /\ UNCHANGED portfolios
           ELSE IF ~get_currency(code) \/ ~get_currency(base_code)
           THEN /\ result' = failed("CurrencyNotFoundError")
                /\ UNCHANGED portfolios
           ELSE IF ~parse_positive_decimal(amount)
           THEN /\ result' = failed("InvalidAmount")
                /\ UNCHANGED portfolios
           ELSE IF session = NoUser
           THEN /\ result' = failed("AuthenticationError")
                /\ UNCHANGED portfolios
           ELSE IF ~get_wallet(ws, code)
           THEN /\ result' = failed("WalletNotFound")
                /\ UNCHANGED portfolios
           ELSE IF moved.err # "none"
           THEN /\ result' = [failed(moved.err) EXCEPT
                                !.old_balance = old_balance,
                                !.new_balance = moved.balance]
                /\ UNCHANGED portfolios
           ELSE /\ moved.balance <= MaxHolding
                /\ IF r.status # "ok"
                   THEN /\ result' = [failed(r.status) EXCEPT
                                        !.old_balance = old_balance,
                                        !.new_balance = moved.balance,
                                        !.rate_status = r.status]
                        /\ portfolios' =
                              save_portfolio(session.user_id,
                                  [ws EXCEPT ![code] = moved.balance])
                   ELSE /\ result' = [failed("ok") EXCEPT
                                        !.old_balance = old_balance,
                                        !.new_balance = moved.balance,
                                        !.rate = r.rate,
                                        !.updated_at = r.updated_at,
                                        !.rate_status = "ok"]
                        /\ portfolios' =
                              save_portfolio(session.user_id,
                                  [ws EXCEPT ![code] = moved.balance])
        /\ UNCHANGED <<fsVars, objVars, envVars, rates, users, sessVars>>

\* PortfolioUsecase.buy / sell share everything but the wallet operation.
\* op is "buy" or "sell"; moved is deposit or withdraw applied to the
\* wallet's balance.
trade(op, currency_code, amount, base) ==
    LET code == normalize_currency_code(currency_code)
        base_code == normalize_currency_code(base)
        ws == load_portfolio(session.user_id)
        old_balance == ws[code]
        moved == IF op = "buy" THEN deposit(old_balance, amount)
                 ELSE withdraw(old_balance, amount)
        r == get_rate(code, base_code)
        failed(status) == [NoResult EXCEPT !.op = op, !.status = status,
                             !.code = code, !.base = base_code,
                             !.amount = amount]
    IN  /\ IF ~require_auth
           THEN /\ result' = failed("AuthenticationError")
                /\ UNCHANGED portfolios
           ELSE IF ~get_currency(code) \/ ~get_currency(base_code)
           THEN /\ result' = failed("CurrencyNotFoundError")
                /\ UNCHANGED portfolios
           ELSE IF ~parse_positive_decimal(amount)
           THEN /\ result' = failed("InvalidAmount")
                /\ UNCHANGED portfolios
           ELSE IF session = NoUser
           THEN /\ result' = failed("AuthenticationError")
                /\ UNCHANGED portfolios
           ELSE IF ~get_wallet(ws, code)
           THEN /\ result' = failed("WalletNotFound")
                /\ UNCHANGED portfolios
           ELSE IF moved.err # "none"
           THEN /\ result' = [failed(moved.err) EXCEPT
                                !.old_balance = old_balance,
                                !.new_balance = moved.balance]
                /\ UNCHANGED portfolios
           ELSE /\ moved.balance <= MaxHolding
                /\ IF r.status # "ok"
                   THEN /\ result' = [failed(r.status) EXCEPT
                                        !.old_balance = old_balance,
                                        !.new_balance = moved.balance,
                                        !.rate_status = r.status]
                        /\ UNCHANGED portfolios
                   ELSE /\ result' = [failed("ok") EXCEPT
                                        !.old_balance = old_balance,
                                        !.new_balance = moved.balance,
                                        !.rate = r.rate,
                                        !.updated_at = r.updated_at,
                                        !.rate_status = "ok"]
                        /\ portfolios' =
                              save_portfolio(session.user_id,
                                  [ws EXCEPT ![code] = moved.balance])
        /\ UNCHANGED <<fsVars, objVars, envVars, rates, users, sessVars>>

\* PortfolioUsecase.buy
buy(currency_code, amount, base) == trade("buy", currency_code, amount, base)

sell_rate_first(currency_code, amount, base) ==
    trade_rate_first("sell", currency_code, amount, base)

\* PortfolioUsecase.sell
sell(currency_code, amount, base) == trade("sell", currency_code, amount, base)

\* total += value, over the wallets in codes
RECURSIVE sum_values(_, _)
sum_values(values, codes) ==
    IF codes = {} THEN Frac(0, 1)
    ELSE LET c == CHOOSE x \in codes : TRUE
         IN  fadd(values[c], sum_values(values, codes \ {c}))

\* PortfolioUsecase.show_portfolio.  A lookup that raises ends the loop;
\* all wallets face the same cache, so whichever wallet comes first the
\* error is the same.
show_portfolio(base) ==
    LET base_code == normalize_currency_code(base)
        ws == load_portfolio(session.user_id)
        lookup(c) == get_rate(c, base_code)
        raising == {c \in DOMAIN ws : c # base_code /\ lookup(c).status # "ok"}
        values == [c \in DOMAIN ws |->
                      IF c = base_code THEN Frac(ws[c], 1)
                      ELSE fmul(Frac(ws[c], 1), lookup(c).rate)]
        failed(status) == [NoResult EXCEPT !.op = "show_portfolio",
                             !.status = status, !.base = base_code]
    IN  /\ result' =
              IF ~require_auth
              THEN failed("AuthenticationError")
              ELSE IF ~get_currency(base_code)
              THEN failed("CurrencyNotFoundError")
              ELSE IF session = NoUser
              THEN failed("AuthenticationError")
              ELSE IF raising # {}
              THEN LET c == CHOOSE x \in raising : TRUE
                   IN  [failed(lookup(c).status) EXCEPT
                          !.code = c, !.rate_status = lookup(c).status]
              ELSE [failed("ok") EXCEPT
                      !.values = values,
                      !.total = sum_values(values, DOMAIN ws),
                      !.rate_status =
                          IF DOMAIN ws \ {base_code} = {} THEN "none" ELSE "ok"]
        /\ UNCHANGED <<fsVars, objVars, envVars, rates, storeVars>>

(***************************************************************************)
(* Command line (cli/interface.py).                                        *)
(***************************************************************************)
\* The commands CLI.run dispatches that end in a usecase outcome.
CliCommands == {"register", "login", "logout", "show_portfolio", "buy",
                "sell", "get_rate"}

\* CLI.run and main, given how the handler ended ("ok", or the exception it
\* raised): both except clauses print the error and fall through, run
\* returns, main returns, and the interpreter exits with status 0.
CLI_run(status) ==
    [error_printed |-> status # "ok", exit_status |-> 0]

(***************************************************************************)
(* DatabaseManager (infra/database.py): write_data step by step, a process *)
(* that is killed in the middle of it, and read_data.                      *)
(***************************************************************************)
\* DatabaseManager._create_backup: copy the entity file, if there is one.
create_backup(entity) ==
    LET f == disk[get_file_path(entity)]
    IN  IF f # Missing THEN backups \cup {<<entity, f>>} ELSE backups

\* write_data is entered with a list: validation passes, nothing is touched.
write_data(entity, data) ==
    /\ writer.pc = "idle"
    /\ writer' = [pc |-> "backup", entity |-> entity, data |-> data]
    /\ UNCHANGED <<objVars, envVars, rates, storeVars, result, dbVars,
                   disk, backups, readResult>>

\* self._create_backup(entity)
write_data_backup ==
    /\ writer.pc = "backup"
    /\ backups' = create_backup(writer.entity)
    /\ writer' = [writer EXCEPT !.pc = "open"]
    /\ UNCHANGED <<objVars, envVars, rates, storeVars, result, dbVars,
                   disk, readResult>>

\* open(temp_path, 'w'): creates the file or truncates it.
write_data_open ==
    /\ writer.pc = "open"
    /\ disk' = [disk EXCEPT ![temp_path(get_file_path(writer.entity))] =
                                File(writer.data, 0)]
    /\ writer' = [writer EXCEPT !.pc = "dump"]
    /\ UNCHANGED <<objVars, envVars, rates, storeVars, result, dbVars,
                   backups, readResult>>

\* json.dump(data, f): one more piece reaches the file; after the last one
\* the with-block closes it.
write_data_dump ==
    LET temp == temp_path(get_file_path(writer.entity))
        arrived == disk[temp].written + 1
    IN  /\ writer.pc = "dump"
        /\ disk' = [disk EXCEPT ![temp] = File(writer.data, arrived)]
        /\ writer' = [writer EXCEPT
                        !.pc = IF arrived = DocChunks THEN "replace" ELSE "dump"]
        /\ UNCHANGED <<objVars, envVars, rates, storeVars, result, dbVars,
                       backups, readResult>>

\* os.replace(temp_path, file_path): the target becomes the temporary file
\* in one step and the temporary name disappears.
write_data_replace ==
    LET file_path == get_file_path(writer.entity)
        temp == temp_path(file_path)
    IN  /\ writer.pc = "replace"
        /\ disk' = [p \in DOMAIN disk |->
                        IF p = file_path THEN disk[temp]
                        ELSE IF p = temp THEN Missing
                        ELSE disk[p]]
        /\ writer' = Idle
        /\ UNCHANGED <<objVars, envVars, rates, storeVars, result, dbVars,
                       backups, readResult>>

\* The process dies inside write_data (or the write raises IOError): the
\* call is gone, the files stay as they are.
Crash ==
    /\ writer.pc # "idle"
    /\ writer' = Idle
    /\ UNCHANGED <<objVars, envVars, rates, storeVars, result, dbVars,
                   disk, backups, readResult>>

\* DatabaseManager.read_data, by any process at any moment.
read_data(entity) ==
    LET f == disk[get_file_path(entity)]
    IN  /\ IF f = Missing
           THEN /\ readResult' = [entity |-> entity, status |-> "ok", doc |-> 0]
                /\ UNCHANGED backups
           ELSE IF Complete(f)
           THEN /\ readResult' = [entity |-> entity, status |-> "ok", doc |-> f.doc]
                /\ UNCHANGED backups
           ELSE /\ readResult' = [entity |-> entity, status |-> "DatabaseError",
                                  doc |-> 0]
                /\ backups' = create_backup(entity)
        /\ UNCHANGED <<objVars, envVars, rates, storeVars, result, dbVars, disk, writer>>

(***************************************************************************)
(* DatabaseManager and DatabaseTransaction by content (infra/database.py): *)
(* what read_data returns, what a completed write_data leaves behind, and  *)
(* what a transaction does with its operations.  A write_data call is one  *)
(* step here; its inner steps are the write layer above.                   *)
(***************************************************************************)
\* The data directory and the backup directory as one value.
Dir == [files |-> files, backup_dir |-> backup_dir]

\* DatabaseManager._create_backup: copy the entity file if it exists.
DatabaseManager_create_backup(dir, entity) ==
    IF dir.files[entity] # Absent
    THEN [dir EXCEPT !.backup_dir = @ \cup {<<entity, dir.files[entity]>>}]
    ELSE dir

\* read_data that recovers from malformed JSON by resetting the file to an
\* empty list and returning it.
read_data_resetting(dir, entity) ==
    LET f == dir.files[entity]
    IN  IF f = Absent
        THEN [status |-> "ok", rows |-> <<>>, dir |-> dir]
        ELSE IF f = Malformed
        THEN [status |-> "ok", rows |-> <<>>,
              dir |-> [DatabaseManager_create_backup(dir, entity)
                          EXCEPT !.files[entity] = Rows(<<>>)]]
        ELSE IF f = NotAList
        THEN [status |-> "DatabaseError", rows |-> <<>>, dir |-> dir]
        ELSE [status |-> "ok", rows |-> f.rows, dir |-> dir]

\* DatabaseManager.read_data: the rows, or DatabaseError; malformed JSON is
\* backed up before the error is raised.
DatabaseManager_read_data(dir, entity) ==
    LET f == dir.files[entity]
    IN  IF f = Absent
        THEN [status |-> "ok", rows |-> <<>>, dir |-> dir]
        ELSE IF f = Malformed
        THEN [status |-> "DatabaseError", rows |-> <<>>,
              dir |-> DatabaseManager_create_backup(dir, entity)]
        ELSE IF f = NotAList
        THEN [status |-> "DatabaseError", rows |-> <<>>, dir |-> dir]
        ELSE [status |-> "ok", rows |-> f.rows, dir |-> dir]

\* DatabaseManager.write_data run to its end: backup, then the file is the
\* new list.
DatabaseManager_write_data(dir, entity, data) ==
    [DatabaseManager_create_backup(dir, entity) EXCEPT !.files[entity] = Rows(data)]

\* The index of the first record whose key field has the value, 0 if none.
first_match(current_data, key, value) ==
    IF \E i \in 1..Len(current_data) : current_data[i][key] = value
    THEN CHOOSE i \in 1..Len(current_data) :
            /\ current_data[i][key] = value
            /\ \A j \in 1..(i - 1) : current_data[j][key] # value
    ELSE 0

\* An update that replaces every matching record.
apply_operation_all(current_data, op) ==
    IF op.type = "update"
    THEN IF first_match(current_data, op.key, op.value) > 0
         THEN [i \in 1..Len(current_data) |->
                  IF current_data[i][op.key] = op.value THEN op.data
                  ELSE current_data[i]]
         ELSE Append(current_data, op.data)
    ELSE IF op.type = "delete"
    THEN SelectSeq(current_data, LAMBDA item : item[op.key] # op.value)
    ELSE current_data

\* DatabaseTransaction._execute_operations, the body of the loop
apply_operation(current_data, op) ==
    IF op.type = "update"
    THEN LET i == first_match(current_data, op.key, op.value)
         IN  IF i > 0 THEN [current_data EXCEPT ![i] = op.data]
             ELSE Append(current_data, op.data)
    ELSE IF op.type = "delete"
    THEN SelectSeq(current_data, LAMBDA item : item[op.key] # op.value)
    ELSE current_data

RECURSIVE apply_operations(_, _, _)
apply_operations(current_data, operations, i) ==
    IF i > Len(operations) THEN current_data
    ELSE apply_operations(apply_operation(current_data, operations[i]),
                          operations, i + 1)

\* DatabaseTransaction._execute_operations: read, apply, write back.
execute_operations(dir, entity, operations) ==
    LET r == DatabaseManager_read_data(dir, entity)
    IN  IF r.status # "ok" THEN [ok |-> FALSE, dir |-> r.dir]
        ELSE [ok |-> TRUE,
              dir |-> DatabaseManager_write_data(
                          r.dir, entity, apply_operations(r.rows, operations, 1))]

\* The keys of operations_by_entity, in insertion order.
RECURSIVE entity_order(_, _, _)
entity_order(operations, i, seen) ==
    IF i > Len(operations) THEN seen
    ELSE entity_order(operations, i + 1,
            IF \E j \in 1..Len(seen) : seen[j] = operations[i].entity
            THEN seen ELSE Append(seen, operations[i].entity))

operations_by_entity(operations, entity) ==
    SelectSeq(operations, LAMBDA op : op.entity = entity)

\* DatabaseTransaction.commit, lines 235-236: one entity after the other,
\* stopping at the first that fails.
RECURSIVE commit_entities(_, _, _, _)
commit_entities(dir, operations, order, i) ==
    IF i > Len(order) THEN [ok |-> TRUE, dir |-> dir]
    ELSE LET r == execute_operations(dir, order[i],
                      operations_by_entity(operations, order[i]))
         IN  IF ~r.ok THEN r
             ELSE commit_entities(r.dir, operations, order, i + 1)

\* DatabaseTransaction.commit
commit(t, dir) ==
    IF t.committed
    THEN [status |-> "DatabaseError", committed |-> TRUE, dir |-> dir]
    ELSE LET r == commit_entities(dir, t.operations,
                      entity_order(t.operations, 1, <<>>), 1)
         IN  [status |-> IF r.ok THEN "ok" ELSE "DatabaseError",
              committed |-> r.ok, dir |-> r.dir]

\* What another program, an editor or an earlier release has left in the
\* data directory for an entity that has no file yet.
FoundContents ==
    {Malformed, NotAList, Rows(<<>>), Rows(<<Record(1, 1)>>),
     Rows(<<Record(1, 1), Record(1, 1)>>)}

put_file(entity, content) ==
    /\ files[entity] = Absent
    /\ tx.pc = "none"
    /\ \A t \in Threads : threads[t].pc = "idle"
    /\ files' = [files EXCEPT ![entity] = content]
    /\ UNCHANGED <<objVars, envVars, rates, storeVars, result,
                   disk, writer, backups, readResult,
                   backup_dir, tx, threads, dbResult>>

\* A call of db.read_data(entity)
DatabaseManager_ReadData(entity) ==
    LET r == DatabaseManager_read_data(Dir, entity)
    IN  /\ dbResult' = [NoDbResult EXCEPT !.op = "read_data", !.entity = entity,
                          !.status = r.status, !.rows = r.rows,
                          !.propagated = (r.status # "ok")]
        /\ files' = r.dir.files
        /\ backup_dir' = r.dir.backup_dir
        /\ UNCHANGED <<objVars, envVars, rates, storeVars, result,
                       disk, writer, backups, readResult, tx, threads>>

\* with db.transaction() as tx:  (DatabaseTransaction.__enter__)
DatabaseTransaction_enter ==
    /\ tx.pc = "none"
    /\ tx' = [pc |-> "open", operations |-> <<>>, committed |-> FALSE]
    /\ dbResult' = [NoDbResult EXCEPT !.op = "enter"]
    /\ UNCHANGED <<objVars, envVars, rates, storeVars, result,
                   disk, writer, backups, readResult,
                   files, backup_dir, threads>>

\* tx.add_operation(op)
add_operation(op) ==
    /\ tx.pc = "open"
    /\ Len(tx.operations) < MaxOps
    /\ tx' = [tx EXCEPT !.operations = Append(@, op)]
    /\ dbResult' = [NoDbResult EXCEPT !.op = "add_operation", !.entity = op.entity]
    /\ UNCHANGED <<objVars, envVars, rates, storeVars, result,
                   disk, writer, backups, readResult,
                   files, backup_dir, threads>>

\* tx.commit() called inside the with-block.
DatabaseTransaction_commit ==
    LET r == commit(tx, Dir)
    IN  /\ tx.pc = "open"
        /\ tx' = [tx EXCEPT !.committed = r.committed]
        /\ files' = r.dir.files
        /\ backup_dir' = r.dir.backup_dir
        /\ dbResult' = [NoDbResult EXCEPT !.op = "commit", !.status = r.status,
                          !.propagated = (r.status # "ok")]
        /\ UNCHANGED <<objVars, envVars, rates, storeVars, result,
                       disk, writer, backups, readResult, threads>>

\* __exit__ that commits whether or not the block already did.
exit_recommitting(raised) ==
    LET r == IF raised
             THEN [status |-> "raised", committed |-> tx.committed, dir |-> Dir]
             ELSE commit([tx EXCEPT !.committed = FALSE], Dir)
    IN  /\ tx.pc = "open"
        /\ tx' = [tx EXCEPT !.pc = "closed", !.committed = r.committed]
        /\ files' = r.dir.files
        /\ backup_dir' = r.dir.backup_dir
        /\ dbResult' = [NoDbResult EXCEPT !.op = "exit", !.status = r.status,
                          !.propagated = (r.status # "ok")]
        /\ UNCHANGED <<objVars, envVars, rates, storeVars, result,
                       disk, writer, backups, readResult, threads>>

\* The with-block ends, normally or by an exception raised in it
\* (DatabaseTransaction.__exit__).
DatabaseTransaction_exit(raised) ==
    LET r == IF raised
             THEN [status |-> "raised", committed |-> tx.committed, dir |-> Dir]
             ELSE IF ~tx.committed
             THEN commit(tx, Dir)
             ELSE [status |-> "ok", committed |-> TRUE, dir |-> Dir]
    IN  /\ tx.pc = "open"
        /\ tx' = [tx EXCEPT !.pc = "closed", !.committed = r.committed]
        /\ files' = r.dir.files
        /\ backup_dir' = r.dir.backup_dir
        /\ dbResult' = [NoDbResult EXCEPT !.op = "exit", !.status = r.status,
                          !.propagated = (r.status # "ok")]
        /\ UNCHANGED <<objVars, envVars, rates, storeVars, result,
                       disk, writer, backups, readResult, threads>>

\* update_entity, line 153, in thread t: entities = self.read_data(entity)
update_entity_read(t, entity, value) ==
    LET r == DatabaseManager_read_data(Dir, entity)
    IN  /\ threads[t].pc \in {"idle", "done", "failed"}
        /\ threads[t].calls < MaxCalls
        /\ threads' = [threads EXCEPT ![t] =
                          [pc |-> IF r.status = "ok" THEN "write" ELSE "failed",
                           entity |-> entity, value |-> value,
                           entities |-> r.rows,
                           calls |-> IF r.status = "ok" THEN @.calls
                                     ELSE @.calls + 1]]
        /\ files' = r.dir.files
        /\ backup_dir' = r.dir.backup_dir
        /\ UNCHANGED <<objVars, envVars, rates, storeVars, result,
                       disk, writer, backups, readResult, tx, dbResult>>

\* update_entity, lines 155-167, in thread t: replace or append in the list
\* read earlier, then write_data.
update_entity_write(t) ==
    LET me == threads[t]
        data == Record(me.value, 2)
        found_index == first_match(me.entities, "id", me.value)
        entities == IF found_index > 0
                    THEN [me.entities EXCEPT ![found_index] = data]
                    ELSE Append(me.entities, data)
        r == DatabaseManager_write_data(Dir, me.entity, entities)
    IN  /\ me.pc = "write"
        /\ threads' = [threads EXCEPT ![t] =
                          [@ EXCEPT !.pc = "done", !.entities = <<>>,
                                    !.calls = @ + 1]]
        /\ files' = r.files
        /\ backup_dir' = r.backup_dir
        /\ UNCHANGED <<objVars, envVars, rates, storeVars, result,
                       disk, writer, backups, readResult, tx, dbResult>>

(***************************************************************************)
(* Specifications.                                                         *)
(***************************************************************************)
Usernames == {"alice"}
TradeCodes == {"USD", "btc", "XYZ"}
TradeBases == {"USD", "XYZ"}
TradeAmounts == {a \in 0..MaxHolding : to_float(a) = a}

InitDefault == Init /\ settings.rates_ttl_seconds = DefaultTtl

Next ==
    \/ Tick(DefaultTtl + 1)
    \/ \E username \in Usernames : register(username)
    \/ \E username \in Usernames, password_ok \in BOOLEAN :
          login(username, password_ok)
    \/ logout
    \/ \E code \in TradeCodes : add_currency_to_portfolio(code)
    \/ \E code \in TradeCodes, amount \in TradeAmounts, base \in TradeBases :
          buy(code, amount, base)
    \/ \E code \in TradeCodes, amount \in TradeAmounts, base \in TradeBases :
          sell(code, amount, base)
    \/ \E base \in TradeBases : show_portfolio(base)
    \/ \E from_code \in TradeCodes, to_code \in TradeBases :
          GetRate(from_code, to_code)
    \/ \E stub \in StubOutcomes("USD") : update("USD", <<FetchFailed, stub>>)

Spec == InitDefault /\ [][Next]_vars

RateCodes == {"USD", "EUR", "btc", "XYZ"}
UpdateBases == {"USD", "EUR", "RUB", "xyz"}

NextWallet ==
    \E code \in WalletCodes, amount \in Amounts :
        \/ Wallet_deposit(code, amount)
        \/ Wallet_withdraw(code, amount)

NextRates ==
    \/ \E d \in TickSteps : Tick(d)
    \/ \E from_code \in RateCodes, to_code \in RateCodes : GetRate(from_code, to_code)
    \/ \E base \in UpdateBases : \E outcomes \in FetchOutcomes(base) :
          update(base, outcomes)

UserNames == {"alice", "bob", "carol"}

NextUsers ==
    \/ \E username \in UserNames : register(username)
    \/ \E username \in UserNames, password_ok \in BOOLEAN :
          login(username, password_ok)
    \/ logout
    \/ NewProcess

NextWrite ==
    \/ \E entity \in Entities, data \in Docs : write_data(entity, data)
    \/ write_data_backup
    \/ write_data_open
    \/ write_data_dump
    \/ write_data_replace
    \/ Crash
    \/ \E entity \in Entities : read_data(entity)

\* The operations a transaction is given in this model.
Operations ==
    {[type |-> "update", entity |-> "test", key |-> "id", value |-> v,
      data |-> Record(v, 2)] : v \in Ids}
    \cup
    {[type |-> "delete", entity |-> "test", key |-> "id", value |-> 1,
      data |-> Record(1, 0)],
     [type |-> "update", entity |-> "audit", key |-> "id", value |-> 1,
      data |-> Record(1, 2)]}

NextTx ==
    \/ \E entity \in DbEntities, content \in FoundContents : put_file(entity, content)
    \/ \E entity \in DbEntities : DatabaseManager_ReadData(entity)
    \/ DatabaseTransaction_enter
    \/ \E op \in Operations : add_operation(op)
    \/ DatabaseTransaction_commit
    \/ \E raised \in BOOLEAN : DatabaseTransaction_exit(raised)

NextThreads ==
    \/ \E entity \in DbEntities, content \in FoundContents : put_file(entity, content)
    \/ \E t \in Threads, entity \in DbEntities, value \in Ids :
          update_entity_read(t, entity, value)
    \/ \E t \in Threads : update_entity_write(t)

\* Two users who hold wallets in two currencies and trade them for USD.
PortfolioUsers == {"alice", "bob"}
PortfolioCodes == {"BTC", "EUR"}
PortfolioAmounts == {a \in 1..MaxHolding : to_float(a) = a}

NextPortfolios ==
    \/ \E username \in PortfolioUsers : register(username)
    \/ \E username \in PortfolioUsers : login(username, TRUE)
    \/ \E code \in PortfolioCodes : add_currency_to_portfolio(code)
    \/ \E code \in PortfolioCodes, amount \in PortfolioAmounts :
          buy(code, amount, "USD")
    \/ \E code \in PortfolioCodes, amount \in PortfolioAmounts :
          sell(code, amount, "USD")
    \/ update("USD", <<FetchFailed, StubRatesClient_fetch("USD")>>)

SpecWallet == Init /\ [][NextWallet]_vars

SpecPortfolios == InitDefault /\ [][NextPortfolios]_vars

SpecTx == InitDefault /\ [][NextTx]_vars

SpecThreads == InitDefault /\ [][NextThreads]_vars

SpecRates == Init /\ [][NextRates]_vars

SpecWrite == InitDefault /\ [][NextWrite]_vars

SpecUsers == InitDefault /\ [][NextUsers]_vars

C2_FailedMutationKeepsBalance ==
    LET r == walletResult IN
    r.op \in {"deposit", "withdraw"} =>
        /\ (r.amount <= 0) => r.err = "ValueError"
        /\ (r.op = "withdraw" /\ r.amount > 0 /\ r.amount > r.before) =>
              /\ r.err = "InsufficientFundsError"
              /\ r.details = [available |-> r.before, required |-> r.amount,
                              currency_code |-> r.code]
        /\ (r.err # "none") => wallets[r.code] = r.before

C2_Witness ==
    /\ walletResult.op = "withdraw"
    /\ walletResult.err = "InsufficientFundsError"
    /\ walletResult.before > 0
    /\ walletResult.amount > walletResult.before

(***************************************************************************)
(* C6: get_rate for a pair present in the cache succeeds exactly when      *)
(* now - last_refresh <= ttl and fails with RatesCacheExpired when         *)
(* now - last_refresh > ttl (ttl: the 300 seconds get_rate applies).       *)
(***************************************************************************)
C6_FreshExactlyWithinTtl ==
    [][\A from_code \in RateCodes, to_code \in RateCodes :
          ( /\ GetRate(from_code, to_code)
            /\ pair_key(upper(from_code), upper(to_code)) \in DOMAIN rates.pairs )
          => /\ (now - rates.last_refresh <= DefaultTtl) => result'.status = "ok"
             /\ (now - rates.last_refresh > DefaultTtl) =>
                    result'.status = "RatesCacheExpired"]_vars

\* A lookup of a cached pair made ttl + 1 seconds after the refresh has
\* failed as expired.
C6_Witness ==
    /\ result.op = "get_rate"
    /\ result.status = "RatesCacheExpired"
    /\ pair_key(result.code, result.base) \in DOMAIN rates.pairs
    /\ now - rates.last_refresh = DefaultTtl + 1

FirstOk(outcomes) ==
    IF \E i \in 1..Len(outcomes) : outcomes[i].ok
    THEN CHOOSE i \in 1..Len(outcomes) :
            /\ outcomes[i].ok
            /\ \A j \in 1..(i - 1) : ~outcomes[j].ok
    ELSE 0

C8_FirstSourceThatSucceedsWins ==
    [][\A base \in UpdateBases : \A outcomes \in FetchOutcomes(base) :
          (update(base, outcomes) /\ get_currency(base)) =>
             LET k == FirstOk(outcomes) IN
             IF k = 0
             THEN /\ result'.status = "RuntimeError"
                  /\ result'.calls = [i \in 1..Len(outcomes) |-> i]
                  /\ rates' = rates
             ELSE /\ result'.status = "ok"
                  /\ result'.calls = [i \in 1..k |-> i]
                  /\ rates'.source = outcomes[k].source
                  /\ \A c \in Supported \ {upper(base)} :
                        (\E p \in DOMAIN rates'.pairs : p[1] = c)
                            <=> c \in DOMAIN outcomes[k].rates]_vars

\* Both sources have failed, one after the other, and the cache written by
\* an earlier update is still there.
C8_Witness ==
    /\ result.op = "update"
    /\ result.status = "RuntimeError"
    /\ result.calls = <<1, 2>>
    /\ rates.last_refresh # NoRefresh
    /\ rates.last_refresh < now

RateLookupFailures == {"RatesCacheEmpty", "RatesCacheExpired", "RateUnavailable"}

\* The balance portfolios.json holds for the user and the code.
PersistedBalance(user_id, code) == load_portfolio(user_id)[code]

C3_BuySurvivesRateFailure ==
    (result.op = "buy" /\ result.rate_status \in RateLookupFailures) =>
        /\ result.status = "ok"
        /\ PersistedBalance(session.user_id, result.code)
              = result.old_balance + result.amount

(***************************************************************************)
(* C4: sell with an amount greater than the wallet's balance fails with    *)
(* InsufficientFunds, leaves the persisted portfolios as they were, and    *)
(* makes no rate lookup: the funds check comes before pricing.             *)
(***************************************************************************)
C4_SellChecksFundsBeforePricing ==
    [][\A code \in TradeCodes, amount \in TradeAmounts, base \in TradeBases :
          ( /\ sell(code, amount, base)
            /\ require_auth
            /\ get_currency(code) /\ get_currency(base)
            /\ get_wallet(load_portfolio(session.user_id), code)
            /\ amount > load_portfolio(session.user_id)[upper(code)] )
          => /\ result'.status = "InsufficientFundsError"
             /\ result'.rate_status = "none"
             /\ portfolios' = portfolios]_vars

\* An overdraft on a wallet that holds money has been refused while the
\* rate cache was fresh and held the pair.
C4_Witness ==
    /\ result.op = "sell"
    /\ result.status = "InsufficientFundsError"
    /\ result.old_balance > 0
    /\ result.amount > result.old_balance
    /\ get_rate(result.code, result.base).status = "ok"

(***************************************************************************)
(* C5: for a currency code that is not in the registry, buy, sell and      *)
(* get_rate each fail with CurrencyNotFound, and the persisted users,      *)
(* portfolios and rate cache are the same before and after the call.       *)
(* (buy and sell: called with a session, which they check first.)          *)
(***************************************************************************)
C5_UnknownCurrencyChangesNothing ==
    [][\A code \in TradeCodes, amount \in TradeAmounts, base \in TradeBases :
          ( /\ upper(code) \notin Registry \/ upper(base) \notin Registry
            /\ \/ require_auth /\ buy(code, amount, base)
               \/ require_auth /\ sell(code, amount, base)
               \/ GetRate(code, base) )
          => /\ result'.status = "CurrencyNotFoundError"
             /\ UNCHANGED <<users, portfolios, rates>>]_vars

\* buy of XYZ has failed for a user who holds money, with a cache in place.
C5_Witness ==
    /\ result.op = "buy"
    /\ result.code = "XYZ"
    /\ result.amount > 0
    /\ result.status = "CurrencyNotFoundError"
    /\ session # NoUser
    /\ \E c \in DOMAIN load_portfolio(session.user_id) :
          load_portfolio(session.user_id)[c] > 0
    /\ rates.last_refresh # NoRefresh

(***************************************************************************)
(* C10: a write that is interrupted at any point (before, during or after  *)
(* the temporary file is written, before the rename) leaves the target     *)
(* file holding the complete previous document or the complete new one,    *)
(* never a partial one; a reader never sees a partial document.            *)
(***************************************************************************)
C10_WriteIsAtomic ==
    [][\A e \in Entities :
          LET before == disk[get_file_path(e)]
              after == disk'[get_file_path(e)]
          IN  /\ \/ after = before
                 \/ /\ writer.entity = e
                    /\ after = File(writer.data, DocChunks)
              /\ readResult'.status # "DatabaseError"]_vars

\* A write of a new document died half way through the temporary file,
\* and a reader then got the complete previous document.
C10_Witness ==
    \E e \in Entities :
        LET f == disk[get_file_path(e)]
            t == disk[temp_path(get_file_path(e))]
        IN  /\ writer = Idle
            /\ t # Missing /\ t.written > 0 /\ t.written < DocChunks
            /\ Complete(f) /\ f.doc # t.doc
            /\ readResult = [entity |-> e, status |-> "ok", doc |-> f.doc]

(***************************************************************************)
(* C11: buy, sell and show_portfolio called with no authenticated session  *)
(* fail with the authentication error, without running the wrapped         *)
(* operation (no rate lookup, no wallet operation) and without changing    *)
(* any persisted state.                                                    *)
(***************************************************************************)
C11_NoSessionNoOperation ==
    [][\A code \in TradeCodes, amount \in TradeAmounts, base \in TradeBases :
          ( /\ session = NoUser
            /\ \/ buy(code, amount, base)
               \/ sell(code, amount, base)
               \/ show_portfolio(base) )
          => /\ result'.status = "AuthenticationError"
             /\ result'.rate_status = "none"
             /\ result'.new_balance = 0 /\ result'.values = <<>>
             /\ UNCHANGED <<users, portfolios, rates, sessionFile>>]_vars

\* After a logout, a buy of an unknown currency was refused for want of a
\* session, while a portfolio with money and a rate cache were in place.
C11_Witness ==
    /\ session = NoUser
    /\ result.op = "buy" /\ result.code = "XYZ" /\ result.amount > 0
    /\ result.status = "AuthenticationError"
    /\ \E i \in 1..Len(portfolios) :
          \E c \in DOMAIN portfolios[i].wallets : portfolios[i].wallets[c] > 0
    /\ rates.last_refresh # NoRefresh

(***************************************************************************)
(* C12: buy of a currency for which the user has no wallet yet succeeds:   *)
(* a zero-balance wallet is created and the amount deposited into it, so   *)
(* the new balance equals the amount; a missing wallet is never an error.  *)
(* (Stated for calls whose rate lookup would succeed.)                     *)
(***************************************************************************)
C12_BuyCreatesMissingWallet ==
    [][\A code \in TradeCodes, amount \in TradeAmounts, base \in TradeBases :
          ( /\ buy(code, amount, base)
            /\ session # NoUser
            /\ get_currency(code) /\ get_currency(base)
            /\ parse_positive_decimal(amount)
            /\ ~get_wallet(load_portfolio(session.user_id), code)
            /\ get_rate(code, base).status = "ok" )
          => /\ result'.status = "ok"
             /\ result'.new_balance = amount
             /\ get_wallet(load_portfolio(session.user_id), code)'
             /\ load_portfolio(session.user_id)'[upper(code)] = amount]_vars

(***************************************************************************)
(* C13: on fresh storage with a fresh rate cache: register alice, log in,  *)
(* buy USD, buy BTC, sell half of the BTC, then show_portfolio with base   *)
(* USD: every step succeeds, the balances are the USD bought and half the  *)
(* BTC bought, and the total is USD + BTC * rate(BTC, USD).                *)
(* Amounts are in units of 500 USD and 0.05 BTC: 1000 USD = 2, 0.1 BTC = 2 *)
(* and 0.05 BTC = 1.  Each step is stated in the state the steps before it *)
(* leave behind.                                                           *)
(***************************************************************************)
ScenarioUser == SessionUser(1, "alice")

\* The state the scenario is in when alice holds exactly the wallets ws.
ScenarioAt(ws) ==
    /\ users = <<ScenarioUser>>
    /\ session = ScenarioUser
    /\ portfolios = <<[user_id |-> 1, wallets |-> ws]>>
    /\ rates.last_refresh # NoRefresh /\ is_fresh(rates.last_refresh)

C13_EndToEnd ==
    [][/\ (ScenarioAt(EmptyWallets) /\ buy("USD", 2, "USD"))
            => /\ result'.status = "ok"
               /\ ScenarioAt("USD" :> 2)'
       /\ (ScenarioAt("USD" :> 2) /\ buy("btc", 2, "USD"))
            => /\ result'.status = "ok"
               /\ ScenarioAt("USD" :> 2 @@ "BTC" :> 2)'
       /\ (ScenarioAt("USD" :> 2 @@ "BTC" :> 2) /\ sell("btc", 1, "USD"))
            => /\ result'.status = "ok"
               /\ ScenarioAt("USD" :> 2 @@ "BTC" :> 1)'
       /\ (ScenarioAt("USD" :> 2 @@ "BTC" :> 1) /\ show_portfolio("USD"))
            => /\ result'.status = "ok"
               /\ result'.values = ("USD" :> Frac(2, 1)
                                    @@ "BTC" :> get_rate("BTC", "USD").rate)
               /\ result'.total =
                     fadd(Frac(2, 1), get_rate("BTC", "USD").rate)]_vars

(***************************************************************************)
(* C14: in show_portfolio, a wallet whose rate lookup against the base     *)
(* fails contributes 0 to the total and is still listed with its balance;  *)
(* the call itself succeeds.                                               *)
(***************************************************************************)
C14_ShowPortfolioSurvivesRateFailure ==
    (result.op = "show_portfolio" /\ result.rate_status \in RateLookupFailures)
        => /\ result.status = "ok"
           /\ result.code \in DOMAIN result.values
           /\ result.values[result.code] = Frac(0, 1)

(***************************************************************************)
(* C15: withdraw(a) followed by deposit(a) on a wallet with balance        *)
(* b >= a > 0 returns the balance to exactly b.                            *)
(***************************************************************************)
C15_WithdrawThenDepositRestores ==
    [][\A code \in WalletCodes, a \in Amounts :
          ( /\ walletResult.op = "withdraw" /\ walletResult.err = "none"
            /\ walletResult.code = code /\ walletResult.amount = a
            /\ Wallet_deposit(code, a) )
          => wallets'[code] = walletResult.before]_vars

(***************************************************************************)
(* C16: the persisted rate cache changes only through an explicit update   *)
(* call: buy, sell, show_portfolio and get_rate never write it, and no     *)
(* step other than a successful update changes last_refresh or any pair.   *)
(***************************************************************************)
C16_OnlyUpdateWritesCache ==
    [][rates' # rates
          => /\ result'.op = "update" /\ result'.status = "ok"
             /\ \E stub \in StubOutcomes("USD") :
                    update("USD", <<FetchFailed, stub>>)
             /\ ~\E code \in TradeCodes, amount \in TradeAmounts,
                    base \in TradeBases :
                    \/ buy(code, amount, base)
                    \/ sell(code, amount, base)
                    \/ show_portfolio(base)
                    \/ GetRate(code, base)]_vars

\* show_portfolio has met an expired cache, which is still there, expired.
C16_Witness ==
    /\ result.op = "show_portfolio"
    /\ result.status = "RatesCacheExpired"
    /\ rates.pairs # EmptyPairs
    /\ ~is_fresh(rates.last_refresh)

(***************************************************************************)
(* C17: a CLI command that ends in a domain-level failure (unknown         *)
(* currency, insufficient funds, authentication failure, invalid amount,   *)
(* rate unavailable) prints an error and exits with a non-zero status; a   *)
(* successful command exits with status zero.                              *)
(***************************************************************************)
C17_FailureExitsNonZero ==
    result.op \in CliCommands =>
        LET out == CLI_run(result.status)
        IN  /\ out.error_printed <=> result.status # "ok"
            /\ out.exit_status = 0 <=> result.status = "ok"

(***************************************************************************)
(* C18: registering a username that is already registered fails and leaves *)
(* the persisted users and portfolios unchanged, so all persisted          *)
(* usernames are pairwise distinct; every successful register adds exactly *)
(* one user, with an id different from all existing ids, and one empty     *)
(* portfolio for that id.                                                  *)
(***************************************************************************)
C18_RegisterKeepsUsersDistinct ==
    [][/\ \A username \in UserNames :
            register(username) =>
                IF \E i \in 1..Len(users) : users[i].username = username
                THEN /\ result'.status = "ValueError"
                     /\ UNCHANGED <<users, portfolios>>
                ELSE /\ result'.status = "ok"
                     /\ Len(users') = Len(users) + 1
                     /\ SubSeq(users', 1, Len(users)) = users
                     /\ users'[Len(users')].username = username
                     /\ \A i \in 1..Len(users) :
                           users[i].user_id # users'[Len(users')].user_id
                     /\ portfolios' =
                           Append(portfolios,
                                  [user_id |-> users'[Len(users')].user_id,
                                   wallets |-> EmptyWallets])
       /\ \A i, j \in 1..Len(users') :
             i # j => users'[i].username # users'[j].username]_vars

\* With two users registered, a third register under a taken name failed.
C18_Witness ==
    /\ result.op = "register"
    /\ result.status = "ValueError"
    /\ Len(users) >= 2
    /\ Len(portfolios) = Len(users)

(***************************************************************************)
(* C19: the session persists across command invocations: after a           *)
(* successful login every later invocation (a new process with a new       *)
(* SessionManager) sees that user as authenticated until logout is run,    *)
(* and after logout every later invocation sees no authenticated user      *)
(* until the next successful login.                                        *)
(***************************************************************************)
\* The user a process started now would see.
SeenByNewProcess == load_session(sessionFile, NoUser)

C20_AddCurrencyIdempotent ==
    \A i \in 1..Len(portfolios) :
        \A code \in DOMAIN portfolios[i].wallets :
            add_currency(portfolios[i].wallets, code)
                = [err |-> "none", wallets |-> portfolios[i].wallets]

(***************************************************************************)
(* C21: get_rate reports its failures in a fixed order: an unknown code    *)
(* gives CurrencyNotFoundError whatever the cache holds; otherwise a cache *)
(* without last_refresh gives RatesCacheEmpty; otherwise an expired cache  *)
(* gives RatesCacheExpired, also when the pair is missing; and only a      *)
(* fresh cache that lacks the pair gives RateUnavailable.  Expired is      *)
(* measured with the 300 seconds get_rate applies.                         *)
(***************************************************************************)
C21_FailureOrder ==
    [][\A from_code \in RateCodes, to_code \in RateCodes :
          GetRate(from_code, to_code)
          => result'.status =
               IF upper(from_code) \notin Registry \/ upper(to_code) \notin Registry
               THEN "CurrencyNotFoundError"
               ELSE IF rates.last_refresh = NoRefresh
               THEN "RatesCacheEmpty"
               ELSE IF now - rates.last_refresh > DefaultTtl
               THEN "RatesCacheExpired"
               ELSE IF pair_key(upper(from_code), upper(to_code))
                          \notin DOMAIN rates.pairs
               THEN "RateUnavailable"
               ELSE "ok"]_vars

\* A lookup of a pair the cache does not hold, made on an expired cache,
\* has failed as expired.
C21_Witness ==
    /\ result.op = "get_rate"
    /\ result.status = "RatesCacheExpired"
    /\ rates.last_refresh # NoRefresh
    /\ now - rates.last_refresh > DefaultTtl
    /\ rates.pairs # EmptyPairs
    /\ pair_key(result.code, result.base) \notin DOMAIN rates.pairs

(***************************************************************************)
(* C22: the ttl get_rate applies is the configured rates TTL: with the     *)
(* setting rates_ttl_seconds at T, a lookup of a cached pair fails with    *)
(* RatesCacheExpired exactly when now - last_refresh > T, and succeeds     *)
(* otherwise.                                                              *)
(***************************************************************************)
C22_ConfiguredTtlApplies ==
    [][\A from_code \in RateCodes, to_code \in RateCodes :
          ( /\ GetRate(from_code, to_code)
            /\ pair_key(upper(from_code), upper(to_code)) \in DOMAIN rates.pairs )
          => LET T == settings["rates_ttl_seconds"] IN
             /\ (now - rates.last_refresh > T) =>
                    result'.status = "RatesCacheExpired"
             /\ (now - rates.last_refresh <= T) => result'.status = "ok"]_vars

(***************************************************************************)
(* C23: the persisted cache is either empty of pairs or every pair's       *)
(* updated_at equals the cache's last_refresh: no reachable cache mixes    *)
(* pairs stamped at different instants.                                    *)
(***************************************************************************)
C23_OneRefreshInstant ==
    \/ rates.pairs = EmptyPairs
    \/ \A k \in DOMAIN rates.pairs :
          rates.pairs[k].updated_at = rates.last_refresh

\* A later update has replaced a fuller table written at an earlier instant
\* by a smaller one.
C23_Witness ==
    /\ result.op = "update" /\ result.status = "ok"
    /\ rates.last_refresh > 0
    /\ rates.pairs # EmptyPairs
    /\ rates.source = "exchangerate.host"
    /\ \E k \in Supported \X Supported : k[1] # k[2] /\ k \notin DOMAIN rates.pairs

(***************************************************************************)
(* C24: after a successful update the pair keys of the persisted cache are *)
(* exactly the ordered pairs (from, to), from # to, of codes that are both *)
(* supported and in the snapshot used (the base included): a pair missing  *)
(* either side is omitted, no self-pair is written, and no pair of the     *)
(* earlier cache survives.                                                 *)
(***************************************************************************)
SnapshotCodes(base, outcomes) ==
    (DOMAIN outcomes[FirstOk(outcomes)].rates \cup {upper(base)}) \cap Supported

OneApplied(rows, op) ==
    LET hits == {i \in 1..Len(rows) : rows[i][op.key] = op.value}
    IN  IF op.type = "delete"
        THEN SelectSeq(rows, LAMBDA r : r[op.key] # op.value)
        ELSE IF hits = {}
        THEN rows \o <<op.data>>
        ELSE LET i == CHOOSE h \in hits : \A g \in hits : h <= g
             IN  SubSeq(rows, 1, i - 1) \o <<op.data>> \o SubSeq(rows, i + 1, Len(rows))

RECURSIVE Applied(_, _)
Applied(rows, ops) ==
    IF ops = <<>> THEN rows ELSE Applied(OneApplied(rows, Head(ops)), Tail(ops))

AfterCommit(e) ==
    LET mine == SelectSeq(tx.operations, LAMBDA op : op.entity = e)
    IN  IF mine = <<>> THEN files[e] ELSE Rows(Applied(files[e].rows, mine))

C26_CommitLeavesBackup ==
    [][(dbResult'.op \in {"commit", "exit"} /\ dbResult'.status = "ok"
           /\ ~tx.committed)
          => \A e \in DbEntities :
                (\E i \in 1..Len(tx.operations) : tx.operations[i].entity = e)
                => \E b \in backup_dir' : b[1] = e]_vars

C28_NoLostUpdate ==
    \A t \in Threads :
        threads[t].pc = "done"
        => /\ files[threads[t].entity].kind = "list"
           /\ \E i \in 1..Len(files[threads[t].entity].rows) :
                 files[threads[t].entity].rows[i].id = threads[t].value

(***************************************************************************)
(* C29: buy and sell are all-or-nothing against persisted state.  A call   *)
(* that returns a receipt has changed the user's persisted balance of the  *)
(* traded currency from old_balance to new_balance, with new_balance =     *)
(* old_balance + amount for buy and old_balance - amount for sell; a call  *)
(* that raises leaves the persisted portfolios identical.                  *)
(***************************************************************************)
C29_TradeAllOrNothing ==
    [][\A code \in TradeCodes, amount \in TradeAmounts, base \in TradeBases :
          /\ buy(code, amount, base)
             => IF result'.status = "ok"
                THEN /\ result'.old_balance
                           = PersistedBalance(session.user_id, upper(code))
                     /\ result'.new_balance = result'.old_balance + amount
                     /\ PersistedBalance(session.user_id, upper(code))'
                           = result'.new_balance
                ELSE portfolios' = portfolios
          /\ sell(code, amount, base)
             => IF result'.status = "ok"
                THEN /\ result'.old_balance
                           = PersistedBalance(session.user_id, upper(code))
                     /\ result'.new_balance = result'.old_balance - amount
                     /\ PersistedBalance(session.user_id, upper(code))'
                           = result'.new_balance
                ELSE portfolios' = portfolios]_vars

\* A buy has deposited into the wallet in memory, the rate lookup has then
\* failed, and the persisted balance is still the old one.
C29_Witness ==
    /\ result.op = "buy"
    /\ result.rate_status \in RateLookupFailures
    /\ result.status = result.rate_status
    /\ result.new_balance > result.old_balance
    /\ session # NoUser
    /\ PersistedBalance(session.user_id, result.code) = result.old_balance

(***************************************************************************)
(* C30: saving one user's portfolio replaces only that user's record.  The *)
(* persisted portfolios hold at most one record per user id, and a buy or  *)
(* sell by user u leaves the record of every other user, and every wallet  *)
(* of u other than the traded currency, unchanged.                         *)
(***************************************************************************)
OneRecordPerUser(ps) ==
    \A i \in 1..Len(ps), j \in 1..Len(ps) :
        ps[i].user_id = ps[j].user_id => i = j

C30_SaveTouchesOneRecord ==
    [][/\ OneRecordPerUser(portfolios')
       /\ \A code \in PortfolioCodes, amount \in PortfolioAmounts :
             ( /\ result'.op \in {"buy", "sell"}
               /\ result'.code = code /\ result'.amount = amount
               /\ (buy(code, amount, "USD") \/ sell(code, amount, "USD")) )
             => /\ Len(portfolios') = Len(portfolios)
                /\ \A i \in 1..Len(portfolios) :
                      /\ portfolios'[i].user_id = portfolios[i].user_id
                      /\ DOMAIN portfolios'[i].wallets = DOMAIN portfolios[i].wallets
                      /\ \A c \in DOMAIN portfolios[i].wallets :
                            (session = NoUser
                               \/ portfolios[i].user_id # session.user_id
                               \/ c # code)
                            => portfolios'[i].wallets[c] = portfolios[i].wallets[c]]_vars

\* The second of two registered users, each holding money in two wallets,
\* has just bought one of the currencies.
C30_Witness ==
    /\ Len(portfolios) = 2
    /\ \A i \in 1..2 : \A c \in PortfolioCodes :
          c \in DOMAIN portfolios[i].wallets /\ portfolios[i].wallets[c] > 0
    /\ session # NoUser /\ session.user_id = portfolios[2].user_id
    /\ result.op = "buy" /\ result.status = "ok"

====
